---- MODULE Spec2Model ----
(***************************************************************************)
(* Logic simulator (GF2): the recursive-descent parser of the circuit     *)
(* definition language, src/logsim/parse.py, as a state machine, followed  *)
(* by the simulation handlers of the GUI, src/final/gui.py, which run on   *)
(* the network the parser has built.                                       *)
(*                                                                         *)
(* The parser reads tokens from a scanner and drives three collaborators   *)
(* (Devices, Network, Monitors) through a name table (Names).  parse.py    *)
(* is translated statement by statement.  The collaborators and the        *)
(* scanner the parser runs against are not part of src/ (scanner.py there  *)
(* is an early draft whose constructor cannot complete), so their          *)
(* interface is modelled from the specification and from the tests that    *)
(* exercise it (test_names.py, final/test_scanner.py).                     *)
(*                                                                         *)
(* Python's None is modelled by the empty set and a present value v by     *)
(* {v} wherever a value is optional (device property, port id).            *)
(***************************************************************************)
EXTENDS Integers, Sequences, FiniteSets, TLC

VARIABLES
    toks,           \* the token stream of the definition file (input)
    pc,             \* position in parse_network: start / loop / done / raised
    symbol,         \* parse_network's local `symbol` (leading token)
    pos,            \* scanner read position: index of the next token
    error_count,    \* Parser.error_count
    error_list,     \* Parser.error_list
    devices,        \* Devices.devices_list, as name -> device record
    connections,    \* Network: the connected input pins and their drivers
    monitors,       \* Monitors.monitors_dictionary keys
    calls,          \* log of make_device / make_connection / make_monitor
    raised,         \* the exception that escaped parse_network, or "none"
    skipped,        \* read positions at which the last skip_statement
                    \* began and ended (history)
    error_call,     \* number of error() calls and the last call's `err`
                    \* argument (history)
    failed_defs,    \* names whose DEF statement recorded an error and left
                    \* them without a device (history)
    result,         \* return value of parse_network ({} until it returns)
    last,           \* what the last loop iteration was (history)
    cycles_completed,   \* Gui.cycles_completed
    history,        \* Monitors.monitors_dictionary values: per monitor,
                    \* the recorded signal list
    recorded,       \* number of record_signals calls since the histories
                    \* were last reset (history)
    sim_log,        \* the collaborator calls of the last run_simulation
                    \* invocation, in order (history)
    sim_result,     \* what that invocation returned ({} before the first)
    handler,        \* the last GUI handler that ran (history)
    spin,           \* Gui.spin.GetValue() ({} until the GUI is built)
    monitored_signals,      \* Gui.monitored_signals
    not_monitored_signals,  \* Gui.not_monitored_signals
    checkboxes,     \* per signal, whether its check box is ticked
    scan_pc,        \* Scanner of src/logsim/scanner.py: "new" before the
                    \* constructor call, "object" for a Scanner instance,
                    \* "failed" once the constructor raised, "unused"
    file_exists,    \* whether `path` can be opened for reading
    file,           \* the characters of the file not yet read
    current_character,  \* Scanner.current_character
    current_line,       \* Scanner.current_line
    character_number,   \* Scanner.character_number
    scan_call,      \* the last Scanner call: method, exception raised,
                    \* value returned, fields before the call (history)
    names,          \* Names.names: the interned strings, id = index - 1
    lookup_call,    \* the last Names.lookup call: argument, exception
                    \* raised, ids returned, table before (history)
    network,        \* the devices and connections the evaluator runs on
    signals,        \* every pin level and every device's internal state
    cycle_call      \* the last evaluator call: outcome, signals before,
                    \* signals the attempt had reached (history)

vars == <<toks, pc, symbol, pos, error_count, error_list, devices,
          connections, monitors, calls, raised, skipped, error_call,
          failed_defs, result, last, cycles_completed, history, recorded,
          sim_log, sim_result, handler, spin, monitored_signals,
          not_monitored_signals, checkboxes, scan_pc, file_exists, file,
          current_character, current_line, character_number, scan_call,
          names, lookup_call, network, signals, cycle_call>>

\* the widgets and lists of the GUI
GuiVars == <<spin, monitored_signals, not_monitored_signals, checkboxes>>
ScannerVars == <<scan_pc, file_exists, file, current_character,
                 current_line, character_number, scan_call>>
NamesVars == <<names, lookup_call>>
\* the state of the units that are checked on their own
NetworkVars == <<network, signals, cycle_call>>
UnitVars == <<ScannerVars, NamesVars, NetworkVars>>

(***************************************************************************)
(* Bounds of the checked input family.                                     *)
(***************************************************************************)
MaxStmts == 2

(***************************************************************************)
(* Tokens (scanner.Symbol).  `type` is the symbol type, "NONE" for the     *)
(* Invalid token (type None).  The Python field `id` is the name-table id  *)
(* for the name-like types, the digit string for NUMBER and None           *)
(* otherwise; the name table is injective, so a name id is modelled by     *)
(* its string (`name`), and the digit string by its digits.                *)
(***************************************************************************)
NameLikeTypes == {"KEYWORD", "DEVICE", "INPUT", "OUTPUT", "NAME"}

keywords_list == {"DEF", "CON", "MONITOR"}
devices_list == {"CLOCK", "SWITCH", "AND", "NAND", "OR", "NOR", "XOR",
                 "DTYPE"}
inputs_list == {"I", "DATA", "CLK", "SET", "CLEAR"}
outputs_list == {"Q", "QBAR"}

Tok(t, n, d) == [type |-> t, name |-> n, digits |-> d]
SEMICOLON == Tok("SEMICOLON", "", <<>>)
EQUALS == Tok("EQUALS", "", <<>>)
DOT == Tok("DOT", "", <<>>)
ARROW == Tok("ARROW", "", <<>>)
EOF == Tok("EOF", "", <<>>)
INVALID == Tok("NONE", "", <<>>)
NUMBER(d) == Tok("NUMBER", "", d)

\* Scanner.get_symbol's classification of an alphanumeric run.
Word(s) ==
    Tok(IF s \in keywords_list THEN "KEYWORD"
        ELSE IF s \in devices_list THEN "DEVICE"
        ELSE IF s \in inputs_list THEN "INPUT"
        ELSE IF s \in outputs_list THEN "OUTPUT"
        ELSE "NAME", s, <<>>)

\* Scanner.get_symbol as the parser sees it: the next token, EndOfFile
\* (again and again) once the stream is exhausted.
get_symbol(p) == IF p <= Len(toks) THEN toks[p] ELSE EOF
advance(p) == IF p <= Len(toks) THEN p + 1 ELSE p

(***************************************************************************)
(* Names.  get_name_string accepts integer ids only; the id of a           *)
(* punctuation, Invalid or EndOfFile token is None and the id of a NUMBER  *)
(* token is a digit string, for which it raises TypeError.                 *)
(***************************************************************************)
IdIsInt(s) == s.type \in NameLikeTypes
get_name_string(s) == s.name

RECURSIVE int(_)
int(d) == IF d = <<>> THEN 0
          ELSE 10 * int(SubSeq(d, 1, Len(d) - 1)) + d[Len(d)]

(***************************************************************************)
(* Devices.                                                                *)
(***************************************************************************)
NO_ERROR == "NO_ERROR"
SYNTAX_ERROR == "SYNTAX_ERROR"
INVALID_QUALIFIER == "INVALID_QUALIFIER"
QUALIFIER_PRESENT == "QUALIFIER_PRESENT"
DEVICE_PRESENT == "DEVICE_PRESENT"
INPUT_CONNECTED == "INPUT_CONNECTED"
PORT_ABSENT == "PORT_ABSENT"
DEVICE_ABSENT == "DEVICE_ABSENT"
NOT_OUTPUT == "NOT_OUTPUT"

gate_types == {"AND", "OR", "NAND", "NOR"}
D_TYPE == "DTYPE"

NoDevice == [device_kind |-> "None", property |-> {}]
Device(kind, property) == [device_kind |-> kind, property |-> property]

get_device(devs, s) ==
    IF IdIsInt(s) /\ s.name \in DOMAIN devs THEN devs[s.name] ELSE NoDevice

InputName == <<"I1", "I2", "I3", "I4", "I5", "I6", "I7", "I8", "I9", "I10",
               "I11", "I12", "I13", "I14", "I15", "I16">>

\* Device.inputs.keys() and Device.outputs.keys()
InputPins(dev) ==
    IF dev.device_kind \in gate_types
        THEN {InputName[i] : i \in {j \in 1..16 :
                                        \E n \in dev.property : j <= n}}
    ELSE IF dev.device_kind = "XOR" THEN {"I1", "I2"}
    ELSE IF dev.device_kind = D_TYPE THEN {"CLK", "SET", "CLEAR", "DATA"}
    ELSE {}
OutputPins(dev) ==
    IF dev.device_kind = D_TYPE THEN {{"Q"}, {"QBAR"}}
    ELSE IF dev.device_kind = "None" THEN {}
    ELSE {{}}

\* Devices.make_device: the error code and the resulting device list.
PropertyOK(kind, property) ==
    IF kind \in gate_types THEN \E n \in property : n >= 1 /\ n <= 16
    ELSE IF kind = "SWITCH" THEN \E n \in property : n \in {0, 1}
    ELSE IF kind = "CLOCK" THEN \E n \in property : n > 0
    ELSE property = {}
make_device(devs, id, kind, property) ==
    IF id \in DOMAIN devs
        THEN [err |-> DEVICE_PRESENT, devices |-> devs]
    ELSE IF ~PropertyOK(kind, property)
        THEN [err |-> INVALID_QUALIFIER, devices |-> devs]
    ELSE [err |-> NO_ERROR,
          devices |-> [x \in DOMAIN devs \cup {id} |->
                         IF x = id THEN Device(kind, property) ELSE devs[x]]]

(***************************************************************************)
(* Network and Monitors.  A connection is the record of a driven input     *)
(* pin: [od, op] drives [id, ip].                                          *)
(***************************************************************************)
Connection(od, op, id, ip) == [od |-> od, op |-> op, id |-> id, ip |-> ip]
Driven(conns, id, ip) == \E c \in conns : c.id = id /\ c.ip = ip

make_connection(devs, conns, od, op, id, ip) ==
    IF od \notin DOMAIN devs \/ id \notin DOMAIN devs
        THEN [err |-> DEVICE_ABSENT, connections |-> conns]
    ELSE IF op \notin OutputPins(devs[od]) \/ ip \notin InputPins(devs[id])
        THEN [err |-> PORT_ABSENT, connections |-> conns]
    ELSE IF Driven(conns, id, ip)
        THEN [err |-> INPUT_CONNECTED, connections |-> conns]
    ELSE [err |-> NO_ERROR,
          connections |-> conns \cup {Connection(od, op, id, ip)}]

Monitor(id, port) == [id |-> id, port |-> port]
make_monitor(devs, mons, id, port) ==
    IF id \notin DOMAIN devs
        THEN [err |-> DEVICE_ABSENT, monitors |-> mons]
    ELSE IF port \notin OutputPins(devs[id])
        THEN [err |-> NOT_OUTPUT, monitors |-> mons]
    ELSE [err |-> NO_ERROR, monitors |-> mons \cup {Monitor(id, port)}]

(***************************************************************************)
(* Parser.  The methods thread a record `st` of everything they can        *)
(* change: the read position, the error log, the collaborators' state,     *)
(* the call log and the exception raised (if any).                         *)
(***************************************************************************)
St == [pos |-> pos, error_count |-> error_count, error_list |-> error_list,
       devices |-> devices, connections |-> connections,
       monitors |-> monitors, calls |-> calls, raised |-> raised,
       skipped |-> skipped, error_call |-> error_call]

\* st after one get_symbol
read(st) == [st EXCEPT !.pos = advance(st.pos)]
\* an exception leaves the method with everything done so far in place
raise(st, exc) == [st EXCEPT !.raised = exc]

RECURSIVE skip_statement(_)
skip_statement(p) ==
    IF get_symbol(p).type \in {"SEMICOLON", "EOF"} THEN advance(p)
    ELSE skip_statement(advance(p))

\* skip_statement as a method: st after it
do_skip_statement(st) ==
    [st EXCEPT !.skipped = [from |-> st.pos, to |-> skip_statement(st.pos)],
               !.pos = skip_statement(st.pos)]

\* error() that records the error but forgets to resynchronise
error_without_skip(st, err) ==
    [st EXCEPT !.error_count = @ + 1,
               !.error_list = Append(@, err),
               !.error_call = [n |-> @.n + 1, err |-> err]]

\* error() that reports the error a second time
error_twice(st, err) ==
    do_skip_statement(
        [st EXCEPT !.error_count = @ + 2,
                   !.error_list = Append(Append(@, err), err),
                   !.error_call = [n |-> @.n + 1, err |-> err]])

\* an error() that appends the code without counting it
error_uncounted(st, err) ==
    do_skip_statement(
        [st EXCEPT !.error_list = Append(@, err),
                   !.error_call = [n |-> @.n + 1, err |-> err]])

error(st, err) ==
    do_skip_statement(
        [st EXCEPT !.error_count = @ + 1,
                   !.error_list = Append(@, err),
                   !.error_call = [n |-> @.n + 1, err |-> err]])

\* a parse_<kind> method that logs the request but installs no device
call_make_device_dropped(st, id, kind, property) ==
    [st EXCEPT !.calls = Append(@, [op |-> "make_device", id |-> id,
                                    kind |-> kind, property |-> property,
                                    ret |-> NO_ERROR])]

\* the devices.make_device call of the parse_<kind> methods; its return
\* value is discarded by the parser
call_make_device(st, id, kind, property) ==
    LET r == make_device(st.devices, id, kind, property)
    IN [st EXCEPT !.devices = r.devices,
                  !.calls = Append(@, [op |-> "make_device", id |-> id,
                                       kind |-> kind, property |-> property,
                                       ret |-> r.err])]

\* the closing `symbol = get_symbol(); if symbol.type == SEMICOLON` of
\* every statement, reporting `err` otherwise
expect_semicolon(st, err) ==
    IF get_symbol(st.pos).type = "SEMICOLON" THEN read(st)
    ELSE error(read(st), err)

parse_and(st, id) ==
    LET s == get_symbol(st.pos)
        st1 == read(st)
        no_of_inputs == int(s.digits)
    IN IF s.type = "NUMBER"
       THEN IF no_of_inputs >= 1 /\ no_of_inputs <= 16
            THEN expect_semicolon(
                     call_make_device(st1, id, "AND", {no_of_inputs}),
                     SYNTAX_ERROR)
            ELSE error(st1, INVALID_QUALIFIER)
       ELSE error(st1, INVALID_QUALIFIER)

parse_or(st, id) ==
    LET s == get_symbol(st.pos)
        st1 == read(st)
        no_of_inputs == int(s.digits)
    IN IF s.type = "NUMBER"
       THEN IF no_of_inputs >= 1 /\ no_of_inputs <= 16
            THEN expect_semicolon(
                     call_make_device(st1, id, "OR", {no_of_inputs}),
                     SYNTAX_ERROR)
            ELSE error(st1, INVALID_QUALIFIER)
       ELSE error(st1, INVALID_QUALIFIER)

\* the out-of-range branch names devices.INVALID_QUALIIER, an attribute
\* Devices does not have: evaluating the argument raises AttributeError
parse_nor(st, id) ==
    LET s == get_symbol(st.pos)
        st1 == read(st)
        no_of_inputs == int(s.digits)
    IN IF s.type = "NUMBER"
       THEN IF no_of_inputs >= 1 /\ no_of_inputs <= 16
            THEN expect_semicolon(
                     call_make_device(st1, id, "NOR", {no_of_inputs}),
                     SYNTAX_ERROR)
            ELSE raise(st1, "AttributeError")
       ELSE error(st1, INVALID_QUALIFIER)

parse_nand(st, id) ==
    LET s == get_symbol(st.pos)
        st1 == read(st)
        no_of_inputs == int(s.digits)
    IN IF s.type = "NUMBER"
       THEN IF no_of_inputs >= 1 /\ no_of_inputs <= 16
            THEN expect_semicolon(
                     call_make_device(st1, id, "NAND", {no_of_inputs}),
                     QUALIFIER_PRESENT)
            ELSE error(st1, INVALID_QUALIFIER)
       ELSE error(st1, INVALID_QUALIFIER)

parse_xor(st, id) ==
    expect_semicolon(call_make_device(st, id, "XOR", {}), SYNTAX_ERROR)
parse_dtype(st, id) ==
    expect_semicolon(call_make_device(st, id, D_TYPE, {}),
                     QUALIFIER_PRESENT)

parse_clock(st, id) ==
    LET s == get_symbol(st.pos)
        st1 == read(st)
    IN IF s.type = "NUMBER"
       THEN expect_semicolon(
                call_make_device(st1, id, "CLOCK", {int(s.digits)}),
                SYNTAX_ERROR)
       ELSE error(st1, INVALID_QUALIFIER)

\* parse_switch leaving the range of the state to make_device
parse_switch_unchecked(st, id) ==
    LET s == get_symbol(st.pos)
        st1 == read(st)
    IN IF s.type = "NUMBER"
       THEN expect_semicolon(
                call_make_device(st1, id, "SWITCH", {int(s.digits)}),
                SYNTAX_ERROR)
       ELSE error(st1, INVALID_QUALIFIER)

parse_switch(st, id) ==
    LET s == get_symbol(st.pos)
        st1 == read(st)
    IN IF s.type = "NUMBER"
       THEN IF int(s.digits) = 0 \/ int(s.digits) = 1
            THEN expect_semicolon(
                     call_make_device(st1, id, "SWITCH", {int(s.digits)}),
                     SYNTAX_ERROR)
            ELSE error(st1, INVALID_QUALIFIER)
       ELSE error(st1, INVALID_QUALIFIER)

\* parse_def without its device-already-defined test
never_defined(devs, s) == FALSE

\* the device-already-defined test of parse_def
already_defined(devs, s) == get_device(devs, s) # NoDevice

parse_def(st) ==
    LET s1 == get_symbol(st.pos)
        st1 == read(st)
        s2 == get_symbol(st1.pos)
        st2 == read(st1)
        s3 == get_symbol(st2.pos)
        st3 == read(st2)
    IN IF s1.type # "NAME" THEN error(st1, SYNTAX_ERROR)
       ELSE IF already_defined(st.devices, s1)
           THEN error(st1, DEVICE_PRESENT)
       ELSE IF s2.type # "EQUALS" THEN error(st2, SYNTAX_ERROR)
       ELSE IF ~IdIsInt(s3) THEN raise(st3, "TypeError")
       ELSE IF get_name_string(s3) \notin devices_list
           THEN error(st3, SYNTAX_ERROR)
       ELSE IF get_name_string(s3) = "AND" THEN parse_and(st3, s1.name)
       ELSE IF get_name_string(s3) = "OR" THEN parse_or(st3, s1.name)
       ELSE IF get_name_string(s3) = "NOR" THEN parse_nor(st3, s1.name)
       ELSE IF get_name_string(s3) = "NAND" THEN parse_nand(st3, s1.name)
       ELSE IF get_name_string(s3) = "XOR" THEN parse_xor(st3, s1.name)
       ELSE IF get_name_string(s3) = "DTYPE" THEN parse_dtype(st3, s1.name)
       ELSE IF get_name_string(s3) = "CLOCK" THEN parse_clock(st3, s1.name)
       ELSE parse_switch(st3, s1.name)

\* parse_con logging the request without connecting anything
call_make_connection_dropped(st, od, op, id, ip) ==
    [st EXCEPT !.calls = Append(@, [op |-> "make_connection", od |-> od,
                                    oport |-> op, id |-> id, iport |-> ip,
                                    ret |-> NO_ERROR])]

\* the network.make_connection call of parse_con
call_make_connection(st, od, op, id, ip) ==
    LET r == make_connection(st.devices, st.connections, od, op, id, ip)
    IN [st EXCEPT !.connections = r.connections,
                  !.calls = Append(@, [op |-> "make_connection", od |-> od,
                                       oport |-> op, id |-> id, iport |-> ip,
                                       ret |-> r.err])]

\* the monitors.make_monitor call of parse_monitor; its return value is
\* discarded by the parser
call_make_monitor(st, id, port) ==
    LET r == make_monitor(st.devices, st.monitors, id, port)
    IN [st EXCEPT !.monitors = r.monitors,
                  !.calls = Append(@, [op |-> "make_monitor", id |-> id,
                                       port |-> port, ret |-> r.err])]

\* parse_con without its `get_device(...) != None` tests
never_absent(device) == FALSE

\* `self.devices.get_device(symbol.id) != None` failing, in parse_con
is_absent(device) == device = NoDevice

\* parse_con ignoring what make_connection returns
never_rejected(error_type) == FALSE

\* `if error_type == self.network.INPUT_CONNECTED` of parse_con
connection_rejected(error_type) == error_type = INPUT_CONNECTED

\* parse_con from the `->` on: st is the state after the source device
\* (and its output pin) has been read, od/op the source device and port
parse_con_input(st, od, op) ==
    LET s1 == get_symbol(st.pos)            \* expected "->"
        st1 == read(st)
        s2 == get_symbol(st1.pos)           \* expected input device name
        st2 == read(st1)
        input_device == get_device(st.devices, s2)
        s3 == get_symbol(st2.pos)           \* expected "."
        st3 == read(st2)
        s4 == get_symbol(st3.pos)           \* expected input pin
        st4 == read(st3)
        st5 == call_make_connection(st4, od, op, s2.name, s4.name)
    IN IF s1.type # "ARROW" THEN error(st1, SYNTAX_ERROR)
       ELSE IF s2.type # "NAME" THEN error(st2, SYNTAX_ERROR)
       ELSE IF is_absent(input_device) THEN error(st2, DEVICE_ABSENT)
       ELSE IF s3.type # "DOT" THEN error(st3, SYNTAX_ERROR)
       ELSE IF ~(IdIsInt(s4) /\ s4.name \in InputPins(input_device))
           THEN error(st4, DEVICE_ABSENT)
       ELSE IF connection_rejected(st5.calls[Len(st5.calls)].ret)
           THEN error(st5, INPUT_CONNECTED)
       ELSE expect_semicolon(st5, SYNTAX_ERROR)

parse_con(st) ==
    LET s1 == get_symbol(st.pos)            \* expected output device name
        st1 == read(st)
        output_device == get_device(st.devices, s1)
        s2 == get_symbol(st1.pos)           \* DTYPE: expected "."
        st2 == read(st1)
        s3 == get_symbol(st2.pos)           \* DTYPE: expected output pin
        st3 == read(st2)
    IN IF s1.type # "NAME" THEN error(st1, SYNTAX_ERROR)
       ELSE IF is_absent(output_device) THEN error(st1, DEVICE_ABSENT)
       ELSE IF output_device.device_kind = D_TYPE
           THEN IF s2.type # "DOT" THEN error(st2, SYNTAX_ERROR)
                ELSE IF ~IdIsInt(s3) THEN raise(st3, "TypeError")
                ELSE IF get_name_string(s3) \notin outputs_list
                    THEN error(st3, PORT_ABSENT)
                ELSE parse_con_input(st3, s1.name, {s3.name})
       ELSE parse_con_input(st1, s1.name, {})

parse_monitor(st) ==
    LET s1 == get_symbol(st.pos)            \* expected device name
        st1 == read(st)
        input_device == get_device(st.devices, s1)
        s2 == get_symbol(st1.pos)           \* DTYPE: expected "."
        st2 == read(st1)
        s3 == get_symbol(st2.pos)           \* DTYPE: expected output pin
        st3 == read(st2)
    IN IF s1.type # "NAME" THEN error(st1, SYNTAX_ERROR)
       ELSE IF input_device = NoDevice THEN error(st1, DEVICE_ABSENT)
       ELSE IF input_device.device_kind = D_TYPE
           THEN \* self.error(err, msg) is called without `symbol`
                IF s2.type # "DOT" THEN raise(st2, "TypeError")
                ELSE IF ~IdIsInt(s3) THEN raise(st3, "TypeError")
                ELSE IF get_name_string(s3) \notin outputs_list
                    THEN error(st3, NOT_OUTPUT)
                ELSE expect_semicolon(
                         call_make_monitor(st3, s1.name, {s3.name}),
                         SYNTAX_ERROR)
       ELSE expect_semicolon(call_make_monitor(st1, s1.name, {}),
                             SYNTAX_ERROR)

(***************************************************************************)
(* parse_network.  One action per way round the top-level loop; each       *)
(* takes the whole iteration, the closing get_symbol included.             *)
(***************************************************************************)
Before == [pos |-> pos, error_count |-> error_count,
           error_list |-> error_list, devices |-> devices,
           connections |-> connections, monitors |-> monitors,
           calls |-> calls, error_call |-> error_call,
           failed_defs |-> failed_defs]

\* the parser's state after a statement method returned (or raised) st
Iterate(kind, st) ==
    LET symbol_after == get_symbol(pos) IN
    /\ error_count' = st.error_count
    /\ error_list' = st.error_list
    /\ devices' = st.devices
    /\ connections' = st.connections
    /\ monitors' = st.monitors
    /\ calls' = st.calls
    /\ raised' = st.raised
    /\ skipped' = st.skipped
    /\ error_call' = st.error_call
    /\ failed_defs' =
          IF /\ kind = "DEF" /\ st.error_count > error_count
             /\ symbol_after.type = "NAME"
             /\ symbol_after.name \notin DOMAIN st.devices
          THEN failed_defs \cup {symbol_after.name}
          ELSE failed_defs
    /\ last' = [kind |-> kind, at |-> pos - 1, before |-> Before]
    /\ IF st.raised = "none"
       THEN /\ symbol' = get_symbol(st.pos)
            /\ pos' = advance(st.pos)
            /\ pc' = "loop"
       ELSE /\ symbol' = symbol
            /\ pos' = st.pos
            /\ pc' = "raised"
    \* make_monitor called by the parser starts an empty signal list
    /\ history' = [m \in st.monitors |->
                      IF m \in DOMAIN history THEN history[m] ELSE <<>>]
    /\ UNCHANGED <<toks, result, cycles_completed, recorded, sim_log,
                   sim_result, handler, GuiVars, UnitVars>>

InLoop == pc = "loop" /\ symbol.type # "EOF"
Keyword(k) == InLoop /\ IdIsInt(symbol)
              /\ get_name_string(symbol) \in keywords_list
              /\ symbol.name = k

\* parse_network without the error_count test in front of parse_con
con_always_analysed(count) == TRUE

\* `if self.error_count == 0` in front of parse_con
con_analysed(count) == count = 0

Start ==
    /\ pc = "start"
    /\ symbol' = get_symbol(pos)
    /\ pos' = advance(pos)
    /\ pc' = "loop"
    /\ UNCHANGED <<toks, error_count, error_list, devices, connections,
                   monitors, calls, raised, skipped, error_call,
                   failed_defs, result, last, cycles_completed, history,
                   recorded, sim_log, sim_result, handler, GuiVars, UnitVars>>

StmtDef == Keyword("DEF") /\ Iterate("DEF", parse_def(St))

StmtCon == Keyword("CON") /\ con_analysed(error_count)
           /\ Iterate("CON", parse_con(St))

StmtConSkipped ==
    /\ Keyword("CON") /\ ~con_analysed(error_count)
    /\ Iterate("CON_SKIPPED", do_skip_statement(St))

StmtMonitor == Keyword("MONITOR") /\ Iterate("MONITOR", parse_monitor(St))

\* a leading token that has a name but is not a keyword
StmtUnrecognised ==
    /\ InLoop /\ IdIsInt(symbol)
    /\ get_name_string(symbol) \notin keywords_list
    /\ Iterate("UNRECOGNISED", error(St, SYNTAX_ERROR))

\* a leading token whose id is not a name id: get_name_string raises
StmtNoName ==
    /\ InLoop /\ ~IdIsInt(symbol)
    /\ Iterate("NO_NAME", raise(St, "TypeError"))

Return ==
    /\ pc = "loop" /\ symbol.type = "EOF"
    /\ pc' = "done"
    /\ result' = {TRUE}
    /\ UNCHANGED <<toks, symbol, pos, error_count, error_list, devices,
                   connections, monitors, calls, raised, skipped,
                   error_call, failed_defs, last, cycles_completed,
                   history, recorded, sim_log, sim_result, handler, GuiVars,
                   UnitVars>>

Next == \/ Start \/ StmtDef \/ StmtCon \/ StmtConSkipped \/ StmtMonitor
        \/ StmtUnrecognised \/ StmtNoName \/ Return

(***************************************************************************)
(* The definition files checked: an optional well-formed preamble          *)
(* followed by up to MaxStmts statements, well-formed or not.              *)
(***************************************************************************)
Num(n) == NUMBER(IF n < 10 THEN <<n>> ELSE <<n \div 10, n % 10>>)
Def(x, k, property) ==
    <<Word("DEF"), Word(x), EQUALS, Word(k)>> \o property \o <<SEMICOLON>>
Con(od, op, id, ip) ==
    <<Word("CON"), Word(od)>> \o op \o
    <<ARROW, Word(id), DOT, Word(ip), SEMICOLON>>
Mon(x, port) == <<Word("MONITOR"), Word(x)>> \o port \o <<SEMICOLON>>
Pin(x) == <<DOT, Word(x)>>
NoSemicolon(stmt) == SubSeq(stmt, 1, Len(stmt) - 1)

Preambles ==
    { <<>>,
      Def("G1", "AND", <<Num(1)>>),
      Def("G1", "AND", <<Num(1)>>) \o Con("G1", <<>>, "G1", "I1"),
      Def("SW1", "SWITCH", <<Num(1)>>) \o Def("G1", "AND", <<Num(1)>>),
      Def("D1", "DTYPE", <<>>) \o Def("G1", "AND", <<Num(1)>>) }

Statements ==
    { Def("G1", "AND", <<Num(2)>>),
      Def("G1", "AND", <<Num(3)>>),
      Def("G2", "NOR", <<Num(17)>>),
      Def("G2", "NAND", <<Num(0)>>),
      Def("G2", "OR", <<Num(2)>>),
      Def("D1", "DTYPE", <<>>),
      Def("G2", "CLOCK", <<Num(0)>>),
      Def("G2", "XOR", <<Num(2)>>),
      <<Word("DEF"), Word("G2"), SEMICOLON>>,
      <<Word("DEF"), Word("G2"), EQUALS, Num(2), SEMICOLON>>,
      NoSemicolon(Def("G2", "AND", <<Num(2)>>)),
      Con("SW1", <<>>, "G1", "I1"),
      Con("G1", <<>>, "G1", "I1"),
      Con("G1", <<>>, "G1", "I2"),
      Con("G2", <<>>, "G1", "I1"),
      Con("G1", <<>>, "G2", "I1"),
      Con("D1", Pin("Q"), "G1", "I1"),
      Con("D1", <<>>, "G1", "I1"),
      Con("D1", Pin("CLK"), "G1", "I1"),
      Con("G1", <<>>, "D1", "DATA"),
      Mon("G1", <<>>),
      Mon("G2", <<>>),
      Mon("D1", <<>>),
      Mon("D1", Pin("Q")),
      Mon("G1", Pin("Q")),
      NoSemicolon(Mon("G1", <<>>)),
      <<Num(2), SEMICOLON>>,
      <<SEMICOLON>>,
      <<Word("G1"), SEMICOLON>>,
      <<INVALID>> }

RECURSIVE Concat(_)
Concat(ss) == IF ss = <<>> THEN <<>> ELSE Head(ss) \o Concat(Tail(ss))

Sources ==
    { pre \o Concat(body) :
        pre \in Preambles,
        body \in UNION { [1..n -> Statements] : n \in 0..MaxStmts } }

ParserFresh ==
    /\ pc = "start"
    /\ symbol = INVALID
    /\ pos = 1
    /\ error_count = 0
    /\ error_list = <<>>
    /\ devices = <<>>
    /\ connections = {}
    /\ monitors = {}
    /\ calls = <<>>
    /\ raised = "none"
    /\ skipped = [from |-> 0, to |-> 0]
    /\ error_call = [n |-> 0, err |-> ""]
    /\ failed_defs = {}
    /\ result = {}
    /\ last = [kind |-> "none", at |-> 0,
               before |-> [pos |-> 1, error_count |-> 0, error_list |-> <<>>,
                           devices |-> <<>>, connections |-> {},
                           monitors |-> {}, calls |-> <<>>,
                           error_call |-> [n |-> 0, err |-> ""],
                           failed_defs |-> {}]]
    /\ cycles_completed = 0
    /\ history = <<>>
    /\ recorded = 0
    /\ sim_log = <<>>
    /\ sim_result = {}
    /\ handler = "none"
    /\ spin = {}
    /\ monitored_signals = <<>>
    /\ not_monitored_signals = <<>>
    /\ checkboxes = <<>>

\* no Scanner of src/logsim/scanner.py takes part in a parse: the parser
\* runs on the token stream
ScannerUnused ==
    /\ scan_pc = "unused"
    /\ file_exists = TRUE
    /\ file = <<>>
    /\ current_character = ""
    /\ current_line = 0
    /\ character_number = 0
    /\ scan_call = [method |-> "none", raised |-> "none", returned |-> {},
                    before |-> [file |-> <<>>, current_character |-> ""]]

\* the name table is not exercised during a parse: the parser's tokens
\* carry their strings
NamesUnused ==
    /\ names = <<>>
    /\ lookup_call = [name_string_list |-> <<>>, raised |-> "none",
                      returned |-> <<>>, before |-> <<>>]

\* the evaluator does not run during a parse
NetworkUnused ==
    /\ network = [devices |-> <<>>, connections |-> {}]
    /\ signals = [out |-> <<>>, inp |-> <<>>, count |-> <<>>]
    /\ cycle_call = [method |-> "none", ok |-> TRUE, before |-> signals,
                     attempt |-> signals]

InitParser == ParserFresh /\ ScannerUnused /\ NamesUnused /\ NetworkUnused

Init == toks \in Sources /\ InitParser

Spec == Init /\ [][Next]_vars

(***************************************************************************)
(* A second family of definition files, for the DEF statement: every       *)
(* device type with no property or a property 0..MaxProperty, with and     *)
(* without its semicolon, for a new and for an already defined name,       *)
(* followed by one statement of another kind.                              *)
(***************************************************************************)
MaxProperty == 17

\* tokens that are not a device type
NotDeviceType ==
    {Word("G3"), Word("Q"), Word("DATA"), Word("CON"), Num(2), DOT, EQUALS,
     ARROW, INVALID}
DefStatements ==
    { <<Word("DEF"), Word(x), EQUALS, Word(k)>> \o property \o semicolon :
        x \in {"G1", "G2"}, k \in devices_list,
        property \in {<<>>} \cup { <<Num(n)>> : n \in 0..MaxProperty },
        semicolon \in {<<>>, <<SEMICOLON>>} }
    \cup
    { <<Word("DEF"), Word(x), EQUALS>> \o t \o <<SEMICOLON>> :
        x \in {"G1", "G2"},
        t \in {<<>>} \cup { <<k>> : k \in NotDeviceType }
                     \cup { <<k, Num(2)>> : k \in NotDeviceType } }

DefTails ==
    { <<>>,
      Con("G1", <<>>, "G1", "I1"),
      Mon("G2", <<>>),
      <<Word("G1"), SEMICOLON>>,
      <<Num(2), SEMICOLON>> }

DefSources ==
    { pre \o d \o tail :
        pre \in {<<>>, Def("G1", "AND", <<Num(2)>>)},
        d \in DefStatements, tail \in DefTails }

InitDef == toks \in DefSources /\ InitParser

SpecDef == InitDef /\ [][Next]_vars

(***************************************************************************)
(* Termination is checked on two-statement sources under the assumption    *)
(* that the interpreter runs parse_network without pause: a step that can  *)
(* be taken is taken.                                                      *)
(***************************************************************************)
FairStatements ==
    { Def("G2", "OR", <<Num(2)>>),
      NoSemicolon(Def("G2", "AND", <<Num(2)>>)),
      Con("G1", <<>>, "G1", "I1"),
      Mon("G1", <<>>),
      <<Word("G1"), SEMICOLON>>,
      <<Num(2), SEMICOLON>> }
FairSources ==
    { pre \o a \o b :
        pre \in {<<>>, Def("G1", "AND", <<Num(1)>>)},
        a \in FairStatements, b \in FairStatements }
InitFair == toks \in FairSources /\ InitParser
SpecFair == InitFair /\ [][Next]_vars /\ WF_vars(Next)

(***************************************************************************)
(* A third family, for the CON statement: a few devices, optionally one    *)
(* earlier statement that connects G1.I1 or records an error, then a CON   *)
(* statement over every combination of source, output pin, target and      *)
(* input pin, then optionally one more statement.                          *)
(***************************************************************************)
ConStatements ==
    { Con(od, op, id, ip) :
        od \in {"G1", "G2", "D1"}, op \in {<<>>, Pin("Q"), Pin("CLK")},
        id \in {"G1", "G2", "D1"}, ip \in {"I1", "I2", "DATA", "Q"} }

ConPreambles ==
    { Def("G1", "AND", <<Num(1)>>),
      Def("G1", "AND", <<Num(2)>>) \o Def("D1", "DTYPE", <<>>),
      Def("D1", "DTYPE", <<>>) \o Def("G2", "XOR", <<>>),
      Def("G1", "NAND", <<Num(1)>>) \o Def("G2", "SWITCH", <<Num(0)>>)
          \o Def("D1", "DTYPE", <<>>) }

ConEarlier ==
    { <<>>,
      Con("G1", <<>>, "G1", "I1"),
      Con("D1", Pin("QBAR"), "D1", "DATA"),
      Def("G2", "OR", <<Num(0)>>),
      Mon("G2", <<>>),
      NoSemicolon(Def("G2", "SWITCH", <<Num(1)>>))
          \o Con("G1", <<>>, "G1", "I1") }

ConTails ==
    { <<>>,
      Mon("G1", <<>>),
      <<Word("G1"), SEMICOLON>>,
      <<SEMICOLON>> }

ConSources ==
    { pre \o earlier \o c \o tail :
        pre \in ConPreambles, earlier \in ConEarlier,
        c \in ConStatements, tail \in ConTails }

InitCon == toks \in ConSources /\ InitParser

SpecCon == InitCon /\ [][Next]_vars

(***************************************************************************)
(* The simulation handlers of the GUI (src/final/gui.py; src/logsim/gui.py *)
(* and gui_3D.py have the same handlers).  The GUI is built once           *)
(* parse_network has returned.  Every handler runs to completion before    *)
(* the next one starts, so each is one action.  Network.execute_network    *)
(* is not part of src/: whether a cycle settles or oscillates depends on   *)
(* the circuit and is an input of the handler.                             *)
(***************************************************************************)
MaxCycles == 2      \* largest value of the cycles spin control
MaxRecorded == 4    \* cap on the cycles recorded between two Runs

BLANK == "BLANK"
LEVEL == "LEVEL"    \* a recorded signal level (HIGH, LOW, RISING, FALLING)

\* Monitors.reset_monitors and Monitors.record_signals
reset_monitors(h) == [m \in DOMAIN h |-> <<>>]
record_signals(h) == [m \in DOMAIN h |-> Append(h[m], LEVEL)]

\* the loop body of run_simulation that records whatever execute_network
\* reports and carries on
simulate_cycle_regardless(g, oscillating) ==
    [g EXCEPT !.history = record_signals(@),
              !.recorded = @ + 1,
              !.log = @ \o <<IF oscillating THEN "execute_network:False"
                             ELSE "execute_network:True",
                             "record_signals">>]

\* the loop body of run_simulation: one execute_network call, then either
\* record_signals or `return False`
simulate_cycle(g, oscillating) ==
    IF ~oscillating
    THEN [g EXCEPT !.history = record_signals(@),
                   !.recorded = @ + 1,
                   !.log = @ \o <<"execute_network:True", "record_signals">>]
    ELSE [g EXCEPT !.log = Append(@, "execute_network:False"),
                   !.ret = {FALSE}]

\* run_simulation(cycles); oscillates[i] tells whether the i-th
\* execute_network call of this invocation would report oscillation
RECURSIVE run_loop(_, _, _, _)
run_loop(g, i, cycles, oscillates) ==
    IF g.ret # {} THEN g
    ELSE IF i > cycles THEN [g EXCEPT !.ret = {TRUE}]
    ELSE run_loop(simulate_cycle(g, oscillates[i]), i + 1, cycles,
                  oscillates)
run_simulation(h, n, cycles, oscillates) ==
    run_loop([history |-> h, recorded |-> n, log |-> <<>>, ret |-> {}],
             1, cycles, oscillates)

\* the handlers run once the GUI has been built
GuiOpen == pc = "done" /\ spin # {}
ParserVars == <<toks, pc, symbol, pos, error_count, error_list, devices,
                connections, calls, raised, skipped, error_call,
                failed_defs, result, last>>

\* on_run_button without `self.cycles_completed = 0` and without the
\* reset_monitors call
on_run_button_accumulating(cycles, oscillates) ==
    /\ GuiOpen
    /\ LET g == run_simulation(history, recorded, cycles, oscillates)
       IN /\ cycles_completed' = IF g.ret = {TRUE}
                                 THEN cycles_completed + cycles
                                 ELSE cycles_completed
          /\ history' = g.history
          /\ recorded' = g.recorded
          /\ sim_log' = <<"cold_startup">> \o g.log
          /\ sim_result' = g.ret
    /\ handler' = "on_run_button"
    /\ UNCHANGED <<ParserVars, monitors, GuiVars, UnitVars>>

\* on_run_button: cycles_completed = 0, then reset_monitors,
\* cold_startup and run_simulation
on_run_button(cycles, oscillates) ==
    /\ GuiOpen
    /\ LET g == run_simulation(reset_monitors(history), 0, cycles,
                               oscillates)
       IN /\ cycles_completed' = IF g.ret = {TRUE} THEN 0 + cycles ELSE 0
          /\ history' = g.history
          /\ recorded' = g.recorded
          /\ sim_log' = <<"reset_monitors", "cold_startup">> \o g.log
          /\ sim_result' = g.ret
    /\ handler' = "on_run_button"
    /\ UNCHANGED <<ParserVars, monitors, GuiVars, UnitVars>>

\* on_continue_button without its "Nothing to continue" test
on_continue_button_unguarded(cycles, oscillates) ==
    /\ GuiOpen
    /\ recorded + cycles <= MaxRecorded
    /\ handler' = "on_continue_button"
    /\ LET g == run_simulation(history, recorded, cycles, oscillates)
       IN /\ cycles_completed' = IF g.ret = {TRUE}
                                 THEN cycles_completed + cycles
                                 ELSE cycles_completed
          /\ history' = g.history
          /\ recorded' = g.recorded
          /\ sim_log' = g.log
          /\ sim_result' = g.ret
    /\ UNCHANGED <<ParserVars, monitors, GuiVars, UnitVars>>

on_continue_button(cycles, oscillates) ==
    /\ GuiOpen
    /\ recorded + cycles <= MaxRecorded
    /\ handler' = "on_continue_button"
    /\ IF cycles_completed = 0       \* "Nothing to continue. Run first."
       THEN UNCHANGED <<cycles_completed, history, recorded, sim_log,
                        sim_result>>
       ELSE LET g == run_simulation(history, recorded, cycles, oscillates)
            IN /\ cycles_completed' = IF g.ret = {TRUE}
                                      THEN cycles_completed + cycles
                                      ELSE cycles_completed
               /\ history' = g.history
               /\ recorded' = g.recorded
               /\ sim_log' = g.log
               /\ sim_result' = g.ret
    /\ UNCHANGED <<ParserVars, monitors, GuiVars, UnitVars>>

\* the signals the check boxes are labelled with: every output of every
\* device (Devices.get_signal_ids finds each of them)
Signals ==
    { Monitor(x, port) : x \in DOMAIN devices,
                         port \in {{}, {"Q"}, {"QBAR"}} }
      \cap { m \in [id : DOMAIN devices, port : {{}, {"Q"}, {"QBAR"}}] :
               m.port \in OutputPins(devices[m.id]) }

\* on_checkbox, box checked: monitors.make_monitor(device, port,
\* cycles_completed) starts the new signal list with cycles_completed
\* blanks; a signal already monitored is refused
monitor_command(m) ==
    /\ GuiOpen /\ m \in Signals
    /\ handler' = "monitor_command"
    /\ IF m \in monitors
       THEN UNCHANGED <<monitors, history>>
       ELSE /\ monitors' = monitors \cup {m}
            /\ history' = [x \in DOMAIN history \cup {m} |->
                             IF x = m
                             THEN [i \in 1..cycles_completed |-> BLANK]
                             ELSE history[x]]
    /\ UNCHANGED <<ParserVars, cycles_completed, recorded, sim_log,
                   sim_result, UnitVars>>

\* on_checkbox, box unchecked: monitors.remove_monitor(device, port)
zap_command(m) ==
    /\ GuiOpen /\ m \in Signals
    /\ handler' = "zap_command"
    /\ monitors' = monitors \ {m}
    /\ history' = [x \in DOMAIN history \ {m} |-> history[x]]
    /\ UNCHANGED <<ParserVars, cycles_completed, recorded, sim_log,
                   sim_result, UnitVars>>

\* a set as a list, in some order
RECURSIVE SeqOf(_)
SeqOf(S) ==
    IF S = {} THEN <<>>
    ELSE LET x == CHOOSE y \in S : TRUE IN <<x>> \o SeqOf(S \ {x})

\* Monitors.get_signal_names: the monitored signals and the others
get_signal_names ==
    [monitored |-> SeqOf(monitors), others |-> SeqOf(Signals \ monitors)]

\* the spin control starts at 10, within the range the model explores
InitialSpin == IF 10 <= MaxCycles THEN 10 ELSE MaxCycles

\* Gui.__init__: the spin control, the two signal lists and one check box
\* per signal, ticked for the monitored ones
GuiInit ==
    /\ pc = "done" /\ spin = {}
    /\ spin' = {InitialSpin}
    /\ monitored_signals' = get_signal_names.monitored
    /\ not_monitored_signals' = get_signal_names.others
    /\ checkboxes' = [m \in Signals |-> m \in monitors]
    /\ UNCHANGED <<ParserVars, monitors, cycles_completed, history,
                   recorded, sim_log, sim_result, handler, UnitVars>>

\* the user changes the spin control; on_spin only reads the value
OnSpin ==
    /\ GuiOpen
    /\ \E n \in 0..MaxCycles : spin # {n} /\ spin' = {n}
    /\ handler' = "on_spin"
    /\ UNCHANGED <<ParserVars, monitors, cycles_completed, history,
                   recorded, sim_log, sim_result, monitored_signals,
                   not_monitored_signals, checkboxes, UnitVars>>

\* `x in list` and list.remove(x) (the first occurrence)
InList(x, list) == \E i \in DOMAIN list : list[i] = x
RECURSIVE remove(_, _)
remove(list, x) ==
    IF list = <<>> THEN <<>>
    ELSE IF Head(list) = x THEN Tail(list)
    ELSE <<Head(list)>> \o remove(Tail(list), x)

\* `if signal not in list: list.append(signal)`
append_if_absent(list, x) == IF InList(x, list) THEN list ELSE Append(list, x)

\* an on_checkbox that leaves the signal in the list it moves it out of
remove_skipped(list, x) == list

\* `if signal in list: list.remove(signal)`
remove_if_present(list, x) == IF InList(x, list) THEN remove(list, x) ELSE list

OnRunButton ==
    \E cycles \in spin : \E oscillates \in [1..cycles -> BOOLEAN] :
        on_run_button(cycles, oscillates)
OnContinueButton ==
    \E cycles \in spin : \E oscillates \in [1..cycles -> BOOLEAN] :
        on_continue_button(cycles, oscillates)

\* the user ticks a box: on_checkbox with checkbox.IsChecked()
OnCheckboxChecked ==
    \E m \in Signals :
        /\ GuiOpen /\ ~checkboxes[m]
        /\ checkboxes' = [checkboxes EXCEPT ![m] = TRUE]
        /\ monitored_signals' = append_if_absent(monitored_signals, m)
        /\ not_monitored_signals' =
              remove_if_present(not_monitored_signals, m)
        /\ monitor_command(m)
        /\ UNCHANGED spin

\* the user clears a box: on_checkbox with not checkbox.IsChecked()
OnCheckboxUnchecked ==
    \E m \in Signals :
        /\ GuiOpen /\ checkboxes[m]
        /\ checkboxes' = [checkboxes EXCEPT ![m] = FALSE]
        /\ monitored_signals' = remove_if_present(monitored_signals, m)
        /\ not_monitored_signals' =
              append_if_absent(not_monitored_signals, m)
        /\ zap_command(m)
        /\ UNCHANGED spin

NextGui == \/ Next
           \/ GuiInit \/ OnSpin
           \/ OnRunButton \/ OnContinueButton
           \/ OnCheckboxChecked \/ OnCheckboxUnchecked

\* the definition files the GUI sessions start from
GuiSources ==
    { Def("SW1", "SWITCH", <<Num(1)>>) \o Def("G1", "NAND", <<Num(2)>>)
          \o Con("SW1", <<>>, "G1", "I1") \o Con("G1", <<>>, "G1", "I2")
          \o Mon("G1", <<>>),
      Def("D1", "DTYPE", <<>>) \o Mon("D1", Pin("Q"))
          \o <<Word("D1"), SEMICOLON>>
          \o Con("D1", Pin("QBAR"), "D1", "DATA"),
      <<SEMICOLON>> }

InitGui == toks \in GuiSources /\ InitParser

SpecGui == InitGui /\ [][NextGui]_vars

(***************************************************************************)
(* The Scanner class of src/logsim/scanner.py, method by method.  Its      *)
(* constructor cannot complete (line 56), so besides the constructor call  *)
(* the public methods are checked as units, on a Scanner object whose      *)
(* fields are as lines 57-73 set them, reading a file of up to MaxText     *)
(* characters.                                                             *)
(***************************************************************************)
MaxText == 3        \* longest file content
MaxReads == 4       \* cap on character_number

Characters == {" ", "\n", "D", "Q", "1", ";", "#", "-", ">", "$"}
isspace(c) == c \in {" ", "\n"}
isalpha(c) == c \in {"D", "Q"}
isalnum(c) == c \in {"D", "Q", "1"}
Texts == UNION { [1..n -> Characters] : n \in 0..MaxText }

Sc == [file |-> file, current_character |-> current_character,
       current_line |-> current_line, character_number |-> character_number]

\* Scanner.advance: file.read(1) gives "" at the end of the file
scanner_advance(sc) ==
    LET c == IF sc.file = <<>> THEN "" ELSE Head(sc.file)
    IN [file |-> IF sc.file = <<>> THEN <<>> ELSE Tail(sc.file),
        current_character |-> c,
        current_line |-> IF c = "\n" THEN sc.current_line + 1
                         ELSE sc.current_line,
        character_number |-> IF c = "\n" THEN 0
                             ELSE sc.character_number + 1]

RECURSIVE skip_spaces(_)
skip_spaces(sc) ==
    IF isspace(sc.current_character) THEN skip_spaces(scanner_advance(sc))
    ELSE sc

\* Scanner.get_symbol: after skip_spaces, line 80 calls
\* self.find_character_position(), a method the class does not define, so
\* every call raises AttributeError there; lines 82-124 are never reached
\* (and end without a return statement)
scanner_get_symbol(sc) ==
    [sc |-> skip_spaces(sc), raised |-> "AttributeError", returned |-> {}]

\* Scanner.__init__, line 56: self.open_file(path) passes two arguments to
\* `def open_file(path)`, so the call raises TypeError before open_file's
\* body (which would catch FileNotFoundError and return None) can run
scanner_init(exists) == [raised |-> "TypeError", object |-> FALSE]

SetScanner(sc) ==
    /\ file' = sc.file
    /\ current_character' = sc.current_character
    /\ current_line' = sc.current_line
    /\ character_number' = sc.character_number
ScannerBefore == [file |-> file, current_character |-> current_character,
                  current_line |-> current_line,
                  character_number |-> character_number]
OtherVars == <<ParserVars, monitors, cycles_completed, history, recorded,
               sim_log, sim_result, handler, GuiVars, NamesVars, NetworkVars>>

ScannerInit ==
    /\ scan_pc = "new"
    /\ LET r == scanner_init(file_exists) IN
         /\ scan_pc' = IF r.object THEN "object" ELSE "failed"
         /\ scan_call' = [method |-> "__init__", raised |-> r.raised,
                          returned |-> {}, before |-> ScannerBefore]
    /\ UNCHANGED <<file_exists, file, current_character, current_line,
                   character_number, OtherVars>>

Advance ==
    /\ scan_pc = "object"
    /\ character_number < MaxReads
    /\ SetScanner(scanner_advance(Sc))
    /\ scan_call' = [method |-> "advance", raised |-> "none",
                     returned |-> {scanner_advance(Sc).current_character},
                     before |-> ScannerBefore]
    /\ UNCHANGED <<scan_pc, file_exists, OtherVars>>

GetSymbol ==
    /\ scan_pc = "object"
    /\ LET r == scanner_get_symbol(Sc) IN
         /\ SetScanner(r.sc)
         /\ scan_call' = [method |-> "get_symbol", raised |-> r.raised,
                          returned |-> r.returned, before |-> ScannerBefore]
    /\ UNCHANGED <<scan_pc, file_exists, OtherVars>>

NextScanner == ScannerInit \/ Advance \/ GetSymbol

InitScanner ==
    /\ ParserFresh /\ NamesUnused /\ NetworkUnused /\ toks = <<>>
    /\ \/ scan_pc = "new" /\ file_exists = FALSE /\ file = <<>>
       \/ scan_pc \in {"new", "object"} /\ file_exists = TRUE
          /\ file \in Texts
    /\ current_character = ""
    /\ current_line = 0
    /\ character_number = 0
    /\ scan_call = [method |-> "none", raised |-> "none", returned |-> {},
                    before |-> [file |-> <<>>, current_character |-> ""]]

SpecScanner == InitScanner /\ [][NextScanner]_vars

(***************************************************************************)
(* The name table (class Names).  names.py is not part of the sources      *)
(* under analysis; the table is modelled from its documented behaviour     *)
(* and from the values its tests expect: names is the list of interned     *)
(* strings and the id of a string is its position in that list, counted    *)
(* from 0.                                                                 *)
(***************************************************************************)
MaxNames == 5      \* lookup is not called on a table this long
MaxList == 2       \* longest name_string_list passed to lookup

NameStrings == {"DEF", "CON", "G1", "G2", "1gf"}
NameLists == UNION {[1..n -> NameStrings] : n \in 1..MaxList}

\* a name starts with a letter and holds only letters and digits
valid_name(s) == s # "1gf"

\* Names.query(name_string): the id of an interned string, None otherwise
query(tbl, s) == {i - 1 : i \in {j \in DOMAIN tbl : tbl[j] = s}}

intern_always(tbl, s) == Append(tbl, s)

\* one string of a lookup: append it unless it is already in the table
intern(tbl, s) == IF query(tbl, s) = {} THEN Append(tbl, s) ELSE tbl

\* Names.lookup(name_string_list): the ids of the strings, in order, the
\* unknown ones interned on the way
RECURSIVE lookup(_, _)
lookup(tbl, list) ==
    IF list = <<>> THEN [names |-> tbl, ids |-> <<>>]
    ELSE LET t == intern(tbl, Head(list))
             r == lookup(t, Tail(list))
         IN [names |-> r.names,
             ids |-> <<CHOOSE i \in query(t, Head(list)) : TRUE>> \o r.ids]

\* the strings of the list before its first invalid one
RECURSIVE valid_prefix(_)
valid_prefix(list) ==
    IF list = <<>> \/ ~valid_name(Head(list)) THEN <<>>
    ELSE <<Head(list)>> \o valid_prefix(Tail(list))

\* A call of lookup.  A list holding an invalid name raises TypeError; the
\* documentation does not say whether the names before it have been
\* interned by then, so both tables are possible.
Lookup ==
    /\ Len(names) < MaxNames
    /\ \E list \in NameLists :
         IF \A k \in DOMAIN list : valid_name(list[k])
         THEN LET r == lookup(names, list) IN
                /\ names' = r.names
                /\ lookup_call' = [name_string_list |-> list,
                                   raised |-> "none", returned |-> r.ids,
                                   before |-> names]
         ELSE /\ names' \in {names, lookup(names, valid_prefix(list)).names}
              /\ lookup_call' = [name_string_list |-> list,
                                 raised |-> "TypeError", returned |-> <<>>,
                                 before |-> names]
    /\ UNCHANGED <<ParserVars, monitors, cycles_completed, history, recorded,
                   sim_log, sim_result, handler, GuiVars, ScannerVars, NetworkVars>>

NextNames == Lookup

InitNames ==
    /\ ParserFresh /\ ScannerUnused /\ NamesUnused /\ NetworkUnused
    /\ toks = <<>>

SpecNames == InitNames /\ [][NextNames]_vars

(***************************************************************************)
(* The network evaluator (Network.execute_network, called by               *)
(* Gui.run_simulation).  network.py and devices.py are not part of the     *)
(* sources under analysis; the evaluator is modelled from its documented   *)
(* behaviour.  signals holds every pin level and every device's internal   *)
(* state: out[x] is the output level of device x, inp[c] the level at the  *)
(* input pin driven by connection c, count[x] the counter of clock x.      *)
(***************************************************************************)
MaxHalfPeriod == 2     \* longest clock half-period in the networks checked

Build(hp, s1, s2) ==
    LET d1 == make_device(<<>>, "SW1", "SWITCH", {s1}).devices
        d2 == make_device(d1, "SW2", "SWITCH", {s2}).devices
        d3 == make_device(d2, "CK1", "CLOCK", {hp}).devices
        d4 == make_device(d3, "G1", "NAND", {2}).devices
        d5 == make_device(d4, "G2", "NOR", {2}).devices
        c1 == make_connection(d5, {}, "SW1", {}, "G1", "I1").connections
        c2 == make_connection(d5, c1, "G1", {}, "G1", "I2").connections
        c3 == make_connection(d5, c2, "CK1", {}, "G2", "I1").connections
        c4 == make_connection(d5, c3, "SW2", {}, "G2", "I2").connections
    IN [devices |-> d5, connections |-> c4]
Networks == {Build(hp, s1, s2) : hp \in 1..MaxHalfPeriod,
                                 s1 \in {0, 1}, s2 \in {0, 1}}

Clocks(net) == {x \in DOMAIN net.devices :
                    net.devices[x].device_kind = "CLOCK"}
Switches(net) == {x \in DOMAIN net.devices :
                      net.devices[x].device_kind = "SWITCH"}

\* Devices.cold_startup: every pin Low, every counter 0, a switch at the
\* level it was defined with
cold_startup(net) ==
    [out |-> [x \in DOMAIN net.devices |->
                IF x \in Switches(net) /\ net.devices[x].property = {1}
                THEN 1 ELSE 0],
     inp |-> [c \in net.connections |-> 0],
     count |-> [x \in Clocks(net) |-> 0]]

\* the output of a gate as a function of its input pin levels; an
\* unconnected input reads Low
gate_output(net, s, x) ==
    LET dev == net.devices[x]
        n == Cardinality(InputPins(dev))
        high == Cardinality({c \in net.connections :
                                c.id = x /\ s.inp[c] = 1})
    IN IF dev.device_kind = "AND" THEN (IF high = n THEN 1 ELSE 0)
       ELSE IF dev.device_kind = "NAND" THEN (IF high = n THEN 0 ELSE 1)
       ELSE IF dev.device_kind = "OR" THEN (IF high > 0 THEN 1 ELSE 0)
       ELSE IF dev.device_kind = "NOR" THEN (IF high > 0 THEN 0 ELSE 1)
       ELSE IF dev.device_kind = "XOR" THEN high % 2
       ELSE s.out[x]

\* every clock's counter advances; its output toggles when the
\* half-period has elapsed
advance_clocks(net, s) ==
    LET due(x) == net.devices[x].property = {s.count[x] + 1}
    IN [s EXCEPT
          !.count = [x \in Clocks(net) |->
                        IF due(x) THEN 0 ELSE s.count[x] + 1],
          !.out = [x \in DOMAIN net.devices |->
                      IF x \in Clocks(net) /\ due(x) THEN 1 - s.out[x]
                      ELSE s.out[x]]]

\* one pass: the outputs travel along the connections, then every gate
\* recomputes its output
propagate(net, s) ==
    LET t == [s EXCEPT !.inp = [c \in net.connections |-> s.out[c.od]]]
    IN [t EXCEPT !.out = [x \in DOMAIN net.devices |->
                             gate_output(net, t, x)]]

max_passes(net) == Cardinality(DOMAIN net.devices) + 1

\* passes until one changes nothing, or until the bound is exceeded
RECURSIVE settle(_, _, _)
settle(net, s, passes) ==
    IF propagate(net, s) = s THEN [ok |-> TRUE, signals |-> s]
    ELSE IF passes = 0 THEN [ok |-> FALSE, signals |-> propagate(net, s)]
    ELSE settle(net, propagate(net, s), passes - 1)

retain(before, attempt) == attempt

\* the state left by a cycle that did not settle: the attempt is discarded
discard(before, attempt) == before

\* Network.execute_network: True and the settled state, or False
execute_network(net, s) ==
    LET r == settle(net, advance_clocks(net, s), max_passes(net))
    IN IF r.ok THEN [ok |-> TRUE, signals |-> r.signals,
                     attempt |-> r.signals]
       ELSE [ok |-> FALSE, signals |-> discard(s, r.signals),
             attempt |-> r.signals]

ExecuteNetwork ==
    /\ LET r == execute_network(network, signals) IN
         /\ signals' = r.signals
         /\ cycle_call' = [method |-> "execute_network", ok |-> r.ok,
                           before |-> signals, attempt |-> r.attempt]
    /\ UNCHANGED <<ParserVars, monitors, cycles_completed, history, recorded,
                   sim_log, sim_result, handler, GuiVars, ScannerVars, NamesVars,
                   network>>

\* Devices.set_switch(id, level): the switch's level, nothing propagated
SetSwitch ==
    /\ \E x \in Switches(network), level \in {0, 1} :
         /\ signals' = [signals EXCEPT !.out[x] = level]
         /\ cycle_call' = [method |-> "set_switch", ok |-> TRUE,
                           before |-> signals, attempt |-> signals']
    /\ UNCHANGED <<ParserVars, monitors, cycles_completed, history, recorded,
                   sim_log, sim_result, handler, GuiVars, ScannerVars, NamesVars,
                   network>>

NextNetwork == ExecuteNetwork \/ SetSwitch

InitNetwork ==
    /\ ParserFresh /\ ScannerUnused /\ NamesUnused /\ toks = <<>>
    /\ network \in Networks
    /\ signals = cold_startup(network)
    /\ cycle_call = [method |-> "none", ok |-> TRUE, before |-> signals,
                     attempt |-> signals]

SpecNetwork == InitNetwork /\ [][NextNetwork]_vars

(***************************************************************************)
(* Properties.  `last` names the statement the last loop iteration         *)
(* parsed: T(i) is its i-th token after the leading keyword and            *)
(* last.before the parser's state when the iteration began.                *)
(***************************************************************************)
T(i) == get_symbol(last.at + i)

\* DEF name = devicetype [number] ;  (EBNF of parse_def)
DefHeader == /\ last.kind = "DEF"
             /\ T(1).type = "NAME" /\ T(2).type = "EQUALS"
             /\ T(3).type = "DEVICE"
DefNewName == T(1).name \notin DOMAIN last.before.devices
DefWellFormed ==
    /\ DefHeader
    /\ IF T(3).name \in {"XOR", "DTYPE"}
       THEN T(4).type = "SEMICOLON"
       ELSE T(4).type = "NUMBER" /\ T(5).type = "SEMICOLON"
DefProperty == IF T(3).name \in {"XOR", "DTYPE"} THEN {}
               ELSE {int(T(4).digits)}
DefInRange ==
    \/ T(3).name \in {"XOR", "DTYPE"}
    \/ T(3).name \in {"AND", "OR", "NAND", "NOR"}
         /\ int(T(4).digits) \in 1..16
    \/ T(3).name = "SWITCH" /\ int(T(4).digits) \in {0, 1}
    \/ T(3).name = "CLOCK" /\ int(T(4).digits) > 0

\* C1: parse_network never aborts early: no exception escapes it, and when
\* it returns it has read up to EndOfFile and returns True.
C1_ParseNetworkNeverAborts ==
    /\ raised = "none"
    /\ pc = "done" => result = {TRUE} /\ symbol.type = "EOF"

\* C2: every call of error(err, ...) increases error_count by exactly 1,
\* appends exactly err to error_list (earlier elements unchanged) and then
\* discards tokens up to and including the next Semicolon or EndOfFile.
C2_ErrorRecordsAndSkips ==
    (last.kind # "none" /\ error_call.n # last.before.error_call.n) =>
        /\ error_count = last.before.error_count + 1
        /\ error_list = Append(last.before.error_list, error_call.err)
        /\ skipped.from <= skipped.to
        /\ \A i \in skipped.from .. (skipped.to - 2) :
               toks[i].type # "SEMICOLON"
        /\ \/ /\ skipped.to - 1 >= skipped.from
              /\ toks[skipped.to - 1].type = "SEMICOLON"
           \/ skipped.to = Len(toks) + 1
        /\ pos = advance(skipped.to)

\* an error was recorded in mid-statement and tokens were discarded up to
\* a later semicolon
C2_Witness ==
    /\ last.kind = "CON" /\ error_call = [n |-> 1, err |-> DEVICE_ABSENT]
    /\ error_list = <<DEVICE_ABSENT>>
    /\ skipped.to > skipped.from + 1
    /\ toks[skipped.to - 1].type = "SEMICOLON"

\* C5: a DEF statement whose name already has a device appends exactly one
\* error, DEVICE_PRESENT, makes no make_device call and leaves the existing
\* devices as they were; `DEF G1=AND 2; DEF G1=AND 3;` ends with
\* error_list = [DEVICE_PRESENT] and G1's property 2.
ScenarioC == Def("G1", "AND", <<Num(2)>>) \o Def("G1", "AND", <<Num(3)>>)
C5_RedefinitionRejected ==
    /\ (last.kind = "DEF" /\ T(1).type = "NAME" /\ ~DefNewName) =>
          /\ raised = "none"
          /\ error_list = Append(last.before.error_list, DEVICE_PRESENT)
          /\ error_count = last.before.error_count + 1
          /\ calls = last.before.calls
          /\ devices = last.before.devices
    /\ (toks = ScenarioC /\ pc = "done") =>
          /\ error_list = <<DEVICE_PRESENT>>
          /\ devices["G1"] = Device("AND", {2})

C5_Witness ==
    /\ toks = ScenarioC /\ pc = "done"
    /\ last.kind = "DEF" /\ last.before.devices["G1"] = Device("AND", {2})
    /\ error_list = <<DEVICE_PRESENT>>

\* C6: for AND, OR, NAND and NOR and every numeric property outside 1..16
\* the DEF statement appends exactly one error, INVALID_QUALIFIER, creates
\* no device, and parsing continues with the next statement.
C6_GateRangeRejected ==
    (/\ DefHeader /\ DefNewName
     /\ T(3).name \in {"AND", "OR", "NAND", "NOR"}
     /\ T(4).type = "NUMBER" /\ int(T(4).digits) \notin 1..16) =>
        /\ raised = "none" /\ pc \in {"loop", "done"}
        /\ error_list = Append(last.before.error_list, INVALID_QUALIFIER)
        /\ devices = last.before.devices

\* C7: a well-formed DEF statement of a not yet defined name with an
\* in-range property records no error, and afterwards a device of that
\* name, the declared kind and the declared property exists.
C7_ValidDefInstalls ==
    (DefWellFormed /\ DefInRange /\ DefNewName) =>
        /\ raised = "none"
        /\ error_list = last.before.error_list
        /\ error_count = last.before.error_count
        /\ DOMAIN devices = DOMAIN last.before.devices \cup {T(1).name}
        /\ devices[T(1).name] = Device(T(3).name, DefProperty)
        /\ \A x \in DOMAIN last.before.devices :
               devices[x] = last.before.devices[x]

C7_Witness ==
    /\ DefWellFormed /\ DefInRange /\ DefNewName
    /\ T(3).name = "NOR" /\ DefProperty = {16}
    /\ last.before.devices # <<>>
    /\ devices[T(1).name] = Device("NOR", {16})

(***************************************************************************)
(* The statements of a source by its semicolons, and the grammar           *)
(*   def_stmt     = "DEF", name, "=", devicetype, [ number ], ";"          *)
(*   con_stmt     = "CON", name, [".", outputpin], "->", name, ".",        *)
(*                  inputpin, ";"                                          *)
(*   monitor_stmt = "MONITOR", name, [".", outputpin], ";"                 *)
(***************************************************************************)
RECURSIVE FirstSemicolon(_, _)
FirstSemicolon(s, i) ==
    IF i > Len(s) THEN Len(s)
    ELSE IF s[i].type = "SEMICOLON" THEN i
    ELSE FirstSemicolon(s, i + 1)

RECURSIVE StatementsOf(_)
StatementsOf(s) ==
    IF s = <<>> THEN <<>>
    ELSE <<SubSeq(s, 1, FirstSemicolon(s, 1))>>
         \o StatementsOf(SubSeq(s, FirstSemicolon(s, 1) + 1, Len(s)))

Types(stmt) == [i \in 1..Len(stmt) |->
                   IF stmt[i].type = "KEYWORD" THEN stmt[i].name
                   ELSE IF stmt[i].type = "INPUT" THEN "NAME"
                   ELSE stmt[i].type]
GrammarOK(stmt) ==
    Types(stmt) \in
      { <<"DEF", "NAME", "EQUALS", "DEVICE", "SEMICOLON">>,
        <<"DEF", "NAME", "EQUALS", "DEVICE", "NUMBER", "SEMICOLON">>,
        <<"CON", "NAME", "ARROW", "NAME", "DOT", "NAME", "SEMICOLON">>,
        <<"CON", "NAME", "DOT", "OUTPUT", "ARROW", "NAME", "DOT", "NAME",
          "SEMICOLON">>,
        <<"MONITOR", "NAME", "SEMICOLON">>,
        <<"MONITOR", "NAME", "DOT", "OUTPUT", "SEMICOLON">> }
\* a DEF statement that is valid on its own
ValidDef(stmt) ==
    /\ GrammarOK(stmt) /\ stmt[1].name = "DEF"
    /\ IF stmt[4].name \in {"XOR", "DTYPE"} THEN Len(stmt) = 5
       ELSE /\ Len(stmt) = 6
            /\ \/ stmt[4].name \in {"AND", "OR", "NAND", "NOR"}
                    /\ int(stmt[5].digits) \in 1..16
               \/ stmt[4].name = "SWITCH" /\ int(stmt[5].digits) \in {0, 1}
               \/ stmt[4].name = "CLOCK" /\ int(stmt[5].digits) > 0
Mentions(stmt, x) == \E i \in 1..Len(stmt) : stmt[i].name = x

\* C3: in a source with exactly one malformed statement the parse records
\* exactly one error and discards tokens only up to that statement's own
\* semicolon: every well-formed statement after it that does not depend on
\* it is parsed and installed.  (Stated for sources whose other statements
\* are valid DEF statements of distinct names the malformed one does not
\* mention.)
C3_OneMalformedStatementOneError ==
    LET ss == StatementsOf(toks)
        OnlyBad(i) ==
            /\ ~GrammarOK(ss[i])
            /\ \A j \in 1..Len(ss) \ {i} :
                   /\ ValidDef(ss[j])
                   /\ ~Mentions(ss[i], ss[j][2].name)
                   /\ \A k \in 1..Len(ss) \ {i, j} :
                          ss[k][2].name # ss[j][2].name
    IN \A i \in 1..Len(ss) :
          (pc = "done" /\ OnlyBad(i)) =>
              /\ error_count = 1
              /\ \A j \in 1..Len(ss) \ {i} :
                     /\ ss[j][2].name \in DOMAIN devices
                     /\ devices[ss[j][2].name].device_kind = ss[j][4].name

\* CON name [. pin] -> name . pin ;   as the last statement parsed
IsCon == last.kind \in {"CON", "CON_SKIPPED"}
ConShort == /\ T(1).type = "NAME" /\ T(2).type = "ARROW"
            /\ T(3).type = "NAME" /\ T(4).type = "DOT"
            /\ IdIsInt(T(5)) /\ T(6).type = "SEMICOLON"
ConLong == /\ T(1).type = "NAME" /\ T(2).type = "DOT" /\ IdIsInt(T(3))
           /\ T(4).type = "ARROW" /\ T(5).type = "NAME"
           /\ T(6).type = "DOT" /\ IdIsInt(T(7))
           /\ T(8).type = "SEMICOLON"
ConShape == IsCon /\ (ConShort \/ ConLong)
ConSource == T(1).name
ConSourcePin == IF ConLong THEN {T(3).name} ELSE {}
ConTarget == IF ConLong THEN T(5).name ELSE T(3).name
ConTargetPin == IF ConLong THEN T(7).name ELSE T(5).name
Defined(x) == x \in DOMAIN last.before.devices
\* the source device exists and has the output the statement names
ConSourceOK == /\ Defined(ConSource)
               /\ ConSourcePin \in OutputPins(last.before.devices[ConSource])

\* C4: after a malformed DEF statement for name X has been skipped (X has
\* no device), every later CON or MONITOR statement that refers to X
\* appends DEVICE_ABSENT to error_list.
RefersTo(x) ==
    \/ last.kind = "MONITOR" /\ T(1) = Word(x)
    \/ IsCon /\ T(1) = Word(x)
    \/ ConShape /\ ConTarget = x
ConToDrivenPin ==
    /\ ConShape /\ ConSourceOK /\ Defined(ConTarget)
    /\ Driven(last.before.connections, ConTarget, ConTargetPin)
ConSourceAbsent == IsCon /\ T(1).type = "NAME" /\ ~Defined(ConSource)
ConTargetAbsent == ConShape /\ ConSourceOK /\ ~Defined(ConTarget)
C10_AbsentPortRejected ==
    (/\ ConShape /\ Defined(ConSource) /\ Defined(ConTarget)
     /\ \/ ConSourcePin \notin OutputPins(last.before.devices[ConSource])
        \/ ConTargetPin \notin InputPins(last.before.devices[ConTarget])) =>
        /\ error_list = Append(last.before.error_list, PORT_ABSENT)
        /\ connections = last.before.connections

\* the device a CON or MONITOR statement names first, as signal source
NamesSource == /\ last.kind \in {"CON", "CON_SKIPPED", "MONITOR"}
               /\ T(1).type = "NAME" /\ Defined(T(1).name)
SourceDevice == last.before.devices[T(1).name]

\* C11: a CON or MONITOR statement that names a DTYPE device as signal
\* source without a following "." pin suffix is rejected: exactly one
\* error is appended to error_list, no connection or monitor is created,
\* and parsing continues with the next statement.
C11_DtypeSourceNeedsPin ==
    (/\ NamesSource /\ SourceDevice.device_kind = D_TYPE
     /\ T(2).type # "DOT") =>
        /\ raised = "none" /\ pc \in {"loop", "done"}
        /\ Len(error_list) = Len(last.before.error_list) + 1
        /\ error_count = last.before.error_count + 1
        /\ connections = last.before.connections
        /\ monitors = last.before.monitors

\* C12: a MONITOR statement that names a non-DTYPE device followed by a
\* ".Q" or ".QBAR" suffix appends a port-absent-class code (PORT_ABSENT or
\* NOT_OUTPUT) to error_list, not SYNTAX_ERROR.
C12_MonitorPinOnPlainDevice ==
    (/\ last.kind = "MONITOR" /\ NamesSource
     /\ SourceDevice.device_kind # D_TYPE
     /\ T(2).type = "DOT" /\ T(3).type = "OUTPUT"
     /\ T(4).type = "SEMICOLON") =>
        /\ Len(error_list) = Len(last.before.error_list) + 1
        /\ error_list[Len(error_list)] \in {PORT_ABSENT, NOT_OUTPUT}

\* the last statement of the source, with the semicolon it lacks put back
LastStatement ==
    LET ss == StatementsOf(toks) IN ss[Len(ss)] \o <<SEMICOLON>>
\* a statement the grammar accepts is also acceptable to a network that
\* holds devices devs and connections conns
StatementValid(stmt, devs, conns) ==
    LET kw == stmt[1].name
        x == stmt[2].name
    IN /\ GrammarOK(stmt)
       /\ kw = "DEF" =>
            ValidDef(stmt) /\ x \notin DOMAIN devs
       /\ kw = "MONITOR" =>
            /\ x \in DOMAIN devs
            /\ (devs[x].device_kind = D_TYPE) = (Len(stmt) = 5)
       /\ kw = "CON" =>
            LET long == Len(stmt) = 9
                id == IF long THEN stmt[6].name ELSE stmt[4].name
                ip == IF long THEN stmt[8].name ELSE stmt[6].name
            IN /\ x \in DOMAIN devs /\ id \in DOMAIN devs
               /\ (devs[x].device_kind = D_TYPE) = long
               /\ ip \in InputPins(devs[id])
               /\ ~Driven(conns, id, ip)
\* the last statement would be accepted in the state it was reached in
LastStatementValid ==
    StatementValid(LastStatement, last.before.devices,
                   last.before.connections)
\* every statement is well-formed, but the last one has no semicolon
OnlyLastSemicolonMissing ==
    /\ pc = "done" /\ toks # <<>>
    /\ toks[Len(toks)].type # "SEMICOLON"
    /\ LET ss == StatementsOf(toks) IN
         /\ \A i \in 1..(Len(ss) - 1) : GrammarOK(ss[i])
         /\ last.at = Len(toks) - Len(ss[Len(ss)]) + 1
    /\ last.before.error_count = 0
    /\ LastStatementValid

\* C13: for a source whose statements are all well-formed except that the
\* last statement (of any kind, of any device type) lacks its terminating
\* semicolon, the parse ends with error_count = 1 and error_list =
\* [SYNTAX_ERROR], and what the earlier statements installed is in place.
C13_MissingLastSemicolon ==
    OnlyLastSemicolonMissing =>
        /\ error_count = 1
        /\ error_list = <<SYNTAX_ERROR>>
        /\ \A x \in DOMAIN last.before.devices :
               x \in DOMAIN devices /\ devices[x] = last.before.devices[x]
        /\ last.before.connections \subseteq connections
        /\ last.before.monitors \subseteq monitors

\* the statement just parsed issued a request that the collaborator refused
RequestRejected ==
    /\ Len(calls) = Len(last.before.calls) + 1
    /\ calls[Len(calls)].ret # NO_ERROR

\* C14: whenever make_device, make_connection or make_monitor rejects a
\* request issued by the parser (returns a code other than NO_ERROR), that
\* code is appended to error_list and error_count is incremented; no
\* collaborator failure is silently dropped.
C14_RejectionsReported ==
    RequestRejected =>
        /\ error_count > last.before.error_count
        /\ \E i \in (Len(last.before.error_list) + 1)..Len(error_list) :
               error_list[i] = calls[Len(calls)].ret

\* what a valid statement asks of the collaborators, and what the network
\* holds once the request is granted
Request(stmt) ==
    LET kw == stmt[1].name
        x == stmt[2].name
        long == Len(stmt) = 9
    IN IF kw = "DEF"
       THEN [op |-> "make_device", id |-> x, kind |-> stmt[4].name,
             property |-> IF Len(stmt) = 6 THEN {int(stmt[5].digits)}
                          ELSE {},
             ret |-> NO_ERROR]
       ELSE IF kw = "CON"
       THEN [op |-> "make_connection", od |-> x,
             oport |-> IF long THEN {stmt[4].name} ELSE {},
             id |-> IF long THEN stmt[6].name ELSE stmt[4].name,
             iport |-> IF long THEN stmt[8].name ELSE stmt[6].name,
             ret |-> NO_ERROR]
       ELSE [op |-> "make_monitor", id |-> x,
             port |-> IF Len(stmt) = 5 THEN {stmt[4].name} ELSE {},
             ret |-> NO_ERROR]
Granted(net, r) ==
    IF r.op = "make_device"
    THEN [net EXCEPT !.devices =
            [y \in DOMAIN net.devices \cup {r.id} |->
                IF y = r.id THEN Device(r.kind, r.property)
                ELSE net.devices[y]]]
    ELSE IF r.op = "make_connection"
    THEN [net EXCEPT !.connections =
            @ \cup {Connection(r.od, r.oport, r.id, r.iport)}]
    ELSE [net EXCEPT !.monitors = @ \cup {Monitor(r.id, r.port)}]

\* the network a source of valid statements describes, statement by
\* statement; ok is FALSE as soon as one statement is not valid
RECURSIVE Described(_, _)
Described(ss, net) ==
    IF ss = <<>> \/ ~net.ok THEN net
    ELSE IF ~StatementValid(Head(ss), net.devices, net.connections)
        THEN [net EXCEPT !.ok = FALSE]
    ELSE Described(Tail(ss),
                   [Granted(net, Request(Head(ss)))
                       EXCEPT !.requests = Append(@, Request(Head(ss)))])
EmptyNetwork == [ok |-> TRUE, devices |-> <<>>, connections |-> {},
                 monitors |-> {}, requests |-> <<>>]
SourceValid ==
    /\ toks # <<>> /\ toks[Len(toks)].type = "SEMICOLON"
    /\ Described(StatementsOf(toks), EmptyNetwork).ok

\* the level a device's output settles to in one cycle after cold start:
\* a switch gives its state, a gate combines its drivers' levels
\* (an unconnected input reads Low), everything else starts Low
RECURSIVE output_level(_, _, _, _)
output_level(devs, conns, x, depth) ==
    LET dev == devs[x]
        n == Cardinality(InputPins(dev))
        high == Cardinality(
                  {c \in conns : /\ c.id = x /\ depth > 0
                                 /\ output_level(devs, conns, c.od,
                                                 depth - 1) = 1})
    IN IF dev.device_kind = "SWITCH" THEN (IF dev.property = {1} THEN 1 ELSE 0)
       ELSE IF dev.device_kind = "AND" THEN (IF high = n THEN 1 ELSE 0)
       ELSE IF dev.device_kind = "NAND" THEN (IF high = n THEN 0 ELSE 1)
       ELSE IF dev.device_kind = "OR" THEN (IF high > 0 THEN 1 ELSE 0)
       ELSE IF dev.device_kind = "NOR" THEN (IF high > 0 THEN 0 ELSE 1)
       ELSE IF dev.device_kind = "XOR" THEN high % 2
       ELSE 0

ScenarioA ==
    Def("SW1", "SWITCH", <<Num(1)>>) \o Def("G1", "AND", <<Num(1)>>)
        \o Con("SW1", <<>>, "G1", "I1")

\* C15: for a source made only of well-formed DEF/CON/MONITOR statements
\* whose references are to previously defined devices and to existing,
\* not yet connected pins, parse_network ends with error_count = 0 and has
\* issued exactly one make_device / make_connection / make_monitor per
\* statement, in source order, with the stated names, kinds, parameters
\* and pins, every one granted; scenario A leaves SW1, G1 and the edge
\* SW1 -> G1.I1 installed, so that one cycle drives G1 High.
C15_ValidSourceInstalled ==
    (pc = "done" /\ SourceValid) =>
        LET net == Described(StatementsOf(toks), EmptyNetwork) IN
        /\ raised = "none" /\ result = {TRUE}
        /\ error_count = 0 /\ error_list = <<>>
        /\ calls = net.requests
        /\ Len(calls) = Len(StatementsOf(toks))
        /\ devices = net.devices
        /\ connections = net.connections
        /\ monitors = net.monitors
        /\ toks = ScenarioA =>
             output_level(devices, connections, "G1", 2) = 1

C15_Witness ==
    /\ pc = "done" /\ SourceValid /\ toks = ScenarioA
    /\ error_count = 0 /\ Len(calls) = 3
    /\ connections = {Connection("SW1", {}, "G1", "I1")}

\* C16: in run_simulation, record_signals is called exactly once after
\* each execute_network call that succeeds and never after a call that
\* reports oscillation; once a call reports oscillation no further
\* execute_network call is made in that invocation and it returns False.
C16_RecordOncePerSettledCycle ==
    LET n == Len(sim_log) IN
    \A i \in 1..n :
        /\ sim_log[i] = "execute_network:True" =>
               /\ i < n /\ sim_log[i + 1] = "record_signals"
               /\ (i + 1 < n => sim_log[i + 2] # "record_signals")
        /\ sim_log[i] = "record_signals" =>
               i > 1 /\ sim_log[i - 1] = "execute_network:True"
        /\ sim_log[i] = "execute_network:False" =>
               i = n /\ sim_result = {FALSE}

C16_Witness ==
    /\ sim_result = {FALSE}
    /\ sim_log = <<"execute_network:True", "record_signals",
                   "execute_network:False">>

\* C17: between GUI handler invocations cycles_completed equals the
\* number of cycles recorded into the monitor histories since the last
\* Run, and every history, including that of a monitor added through
\* monitor_command, has exactly that many entries.
C17_CyclesCompletedMatchesHistories ==
    GuiOpen =>
        /\ cycles_completed = recorded
        /\ \A m \in DOMAIN history : Len(history[m]) = cycles_completed

C19_MissingFileRaisesFileNotFound ==
    (scan_call.method = "__init__" /\ ~file_exists) =>
        /\ scan_call.raised = "FileNotFoundError"
        /\ scan_pc = "failed"

\* the alphanumeric run that starts at the current character
RECURSIVE Run(_, _)
Run(c, rest) ==
    IF rest # <<>> /\ isalnum(Head(rest))
    THEN Run(c \o Head(rest), Tail(rest))
    ELSE c

RECURSIVE DropLine(_)
DropLine(t) ==
    IF t = <<>> THEN <<>>
    ELSE IF Head(t) = "\n" THEN Tail(t)
    ELSE DropLine(Tail(t))
RECURSIVE SkipBlank(_)
SkipBlank(t) ==
    IF t = <<>> THEN <<>>
    ELSE IF isspace(Head(t)) THEN SkipBlank(Tail(t))
    ELSE IF Head(t) = "#" THEN SkipBlank(DropLine(Tail(t)))
    ELSE t
RECURSIVE DigitRun(_)
DigitRun(t) ==
    IF t # <<>> /\ Head(t) = "1" THEN <<1>> \o DigitRun(Tail(t)) ELSE <<>>
FirstToken(text) ==
    LET t == SkipBlank(text) IN
    IF t = <<>> THEN EOF
    ELSE IF isalpha(Head(t)) THEN Word(Run(Head(t), Tail(t)))
    ELSE IF Head(t) = "1" THEN NUMBER(DigitRun(t))
    ELSE IF Head(t) = ";" THEN SEMICOLON
    ELSE IF Len(t) >= 2 /\ Head(t) = "-" /\ t[2] = ">" THEN ARROW
    ELSE INVALID

NewStrings(list, tbl) ==
    {k \in DOMAIN list :
        /\ query(tbl, list[k]) = {}
        /\ \A j \in 1..(k - 1) : list[j] # list[k]}
C22_LookupIdempotentInjective ==
    LET b == lookup_call.before
        l == lookup_call.name_string_list
        ids == lookup_call.returned
    IN /\ \A i, j \in DOMAIN names : names[i] = names[j] => i = j
       /\ Len(b) <= Len(names)
       /\ \A i \in DOMAIN b : names[i] = b[i]
       /\ lookup_call.raised = "none" =>
            /\ Len(ids) = Len(l)
            /\ \A k \in DOMAIN l :
                 /\ ids[k] \in 0..(Len(names) - 1)
                 /\ names[ids[k] + 1] = l[k]
                 /\ query(b, l[k]) # {} => query(b, l[k]) = {ids[k]}
                 /\ k \in NewStrings(l, b) =>
                      ids[k] = Len(b) + Cardinality(
                                 {j \in NewStrings(l, b) : j < k})
            /\ Len(names) = Len(b) + Cardinality(NewStrings(l, b))
\* a call that meets a reserved word interned by an earlier call and a new
\* string, after the reserved words were interned first
C22_Witness ==
    /\ lookup_call.raised = "none"
    /\ lookup_call.before = <<"DEF", "CON">>
    /\ lookup_call.name_string_list = <<"CON", "G1">>
    /\ lookup_call.returned = <<1, 2>>
    /\ names = <<"DEF", "CON", "G1">>


MissingSemicolonBeforeCon ==
    \E pre \in ConPreambles, c \in ConStatements,
       tail \in {<<>>, Mon("G1", <<>>)} :
        /\ toks = pre \o NoSemicolon(Def("G2", "SWITCH", <<Num(1)>>))
                      \o Con("G1", <<>>, "G1", "I1") \o c \o tail
        /\ tail # <<>> => "G1" \in DOMAIN devices
        /\ "G2" \notin {pre[i].name : i \in DOMAIN pre}
C25_UnrecognisedLeadingToken ==
    last.kind \in {"UNRECOGNISED", "NO_NAME"} =>
        /\ raised = "none"
        /\ error_list = Append(last.before.error_list, SYNTAX_ERROR)
        /\ error_count = last.before.error_count + 1
        /\ symbol = get_symbol(FirstSemicolon(toks, last.at + 1) + 1)


\* C26: a DEF statement with a new name and `=` whose next token is not one
\* of the eight device types (a name, a number, punctuation) appends
\* exactly one SYNTAX_ERROR to error_list and creates no device.
C26_NotADeviceType ==
    (/\ last.kind = "DEF"
     /\ T(1).type = "NAME" /\ DefNewName /\ T(2).type = "EQUALS"
     /\ T(3).type # "DEVICE") =>
        /\ raised = "none"
        /\ error_list = Append(last.before.error_list, SYNTAX_ERROR)
        /\ error_count = last.before.error_count + 1
        /\ devices = last.before.devices
        /\ calls = last.before.calls


\* C27: one dispatch of parse_network's loop (parse_def, parse_con,
\* parse_monitor, a skipped CON or the unrecognised-token branch) leaves
\* the earlier entries of error_list as they were and appends at most one
\* entry; error_count grows by as much.
C27_AtMostOneErrorPerStatement ==
    last.kind # "none" =>
        /\ Len(error_list) \in {Len(last.before.error_list),
                                Len(last.before.error_list) + 1}
        /\ SubSeq(error_list, 1, Len(last.before.error_list))
              = last.before.error_list
        /\ error_count - last.before.error_count
              = Len(error_list) - Len(last.before.error_list)
\* a DEF with two faults, a name already defined and no device type after
\* `=`, has reported the first one only
C27_Witness ==
    /\ last.kind = "DEF"
    /\ T(1).type = "NAME" /\ ~DefNewName
    /\ T(2).type = "EQUALS" /\ T(3).type # "DEVICE"
    /\ error_list = Append(last.before.error_list, DEVICE_PRESENT)


\* C28: a DEF of a new name as SWITCH whose parameter is missing or is a
\* number other than 0 and 1 appends exactly one INVALID_QUALIFIER to
\* error_list, makes no make_device call and creates no device.
SwitchHeader == DefHeader /\ DefNewName /\ T(3).name = "SWITCH"
C28_SwitchParameterRejected ==
    (/\ SwitchHeader
     /\ \/ T(4).type # "NUMBER"
        \/ int(T(4).digits) \notin {0, 1}) =>
        /\ raised = "none"
        /\ error_list = Append(last.before.error_list, INVALID_QUALIFIER)
        /\ error_count = last.before.error_count + 1
        /\ devices = last.before.devices
        /\ calls = last.before.calls
\* `DEF G2 = SWITCH 2;` after G1 was defined: one INVALID_QUALIFIER, G2
\* not created
C28_Witness ==
    /\ SwitchHeader /\ T(1).name = "G2"
    /\ T(4).type = "NUMBER" /\ int(T(4).digits) = 2
    /\ T(5).type = "SEMICOLON"
    /\ error_list = <<INVALID_QUALIFIER>>
    /\ DOMAIN devices = {"G1"}


\* C29: a DEF of a new name as CLOCK whose half-period is not a positive
\* number (0 in particular, or no number at all) appends an error to
\* error_list and creates no CLOCK device.
ClockHeader == DefHeader /\ DefNewName /\ T(3).name = "CLOCK"
C29_ClockHalfPeriodRejected ==
    (/\ ClockHeader
     /\ \/ T(4).type # "NUMBER"
        \/ int(T(4).digits) <= 0) =>
        /\ raised = "none"
        /\ Len(error_list) = Len(last.before.error_list) + 1
        /\ devices = last.before.devices


\* C30: get_symbol called at "->" returns one Arrow token and consumes
\* both characters; called at any other unrecognised character, a "-" not
\* followed by ">" included, it returns one Invalid token and consumes that
\* character only, so that the character after it starts the next token.
First(t) == IF t = <<>> THEN "" ELSE Head(t)
Rest(t) == IF t = <<>> THEN <<>> ELSE Tail(t)
RECURSIVE LeadingNewlines(_)
LeadingNewlines(t) ==
    IF t = <<>> \/ ~isspace(Head(t)) THEN 0
    ELSE (IF Head(t) = "\n" THEN 1 ELSE 0) + LeadingNewlines(Tail(t))
Count(log, e) == Cardinality({i \in DOMAIN log : log[i] = e})
C32_RunResetsThenSimulates ==
    handler = "on_run_button" =>
        /\ Len(sim_log) >= 2
        /\ sim_log[1] = "reset_monitors" /\ sim_log[2] = "cold_startup"
        /\ \A i \in 3..Len(sim_log) :
              sim_log[i] \notin {"reset_monitors", "cold_startup"}
        /\ DOMAIN history = monitors
        /\ \A m \in monitors :
              Len(history[m]) = Count(sim_log, "execute_network:True")
        /\ sim_result = {FALSE} <=> Count(sim_log, "execute_network:False") > 0
        /\ sim_result = {TRUE} =>
              /\ spin = {Count(sim_log, "execute_network:True")}
              /\ spin = {cycles_completed}
        /\ sim_result = {FALSE} => cycles_completed = 0
        /\ sim_result # {}
\* a Run of two cycles whose second cycle oscillated, with a monitor
C32_Witness ==
    /\ handler = "on_run_button" /\ spin = {2}
    /\ sim_log = <<"reset_monitors", "cold_startup", "execute_network:True",
                   "record_signals", "execute_network:False">>
    /\ cycles_completed = 0
    /\ monitors # {}
    /\ \A m \in monitors : Len(history[m]) = 1


\* C33: a Continue pressed while cycles_completed = 0 makes no
\* execute_network call, records nothing and leaves cycles_completed at 0;
\* pressed otherwise, it adds the requested count to cycles_completed
\* exactly when every requested cycle succeeded and leaves it unchanged
\* when one oscillated.
ContinueStep ==
    IF cycles_completed = 0
    THEN /\ cycles_completed' = 0
         /\ history' = history /\ recorded' = recorded
         /\ sim_log' = sim_log /\ sim_result' = sim_result
    ELSE /\ sim_result' \in {{TRUE}, {FALSE}}
         /\ sim_result' = {TRUE} <=>
               Count(sim_log', "execute_network:False") = 0
         /\ sim_result' = {TRUE} =>
               /\ spin = {Count(sim_log', "execute_network:True")}
               /\ spin = {cycles_completed' - cycles_completed}
         /\ sim_result' = {FALSE} => cycles_completed' = cycles_completed
         /\ recorded' = recorded + Count(sim_log', "record_signals")
C33_ContinueOnlyAfterRun ==
    [][handler' = "on_continue_button" => ContinueStep]_vars
\* Continue was pressed after a Run that oscillated in its second cycle:
\* the call log is still that of the Run
C33_Witness ==
    /\ handler = "on_continue_button"
    /\ cycles_completed = 0 /\ recorded = 1
    /\ sim_log = <<"reset_monitors", "cold_startup", "execute_network:True",
                   "record_signals", "execute_network:False">>


\* C34: parse_network terminates on every finite input: every iteration of
\* the top-level loop reads at least one further token (or has reached
\* EndOfFile), and the parse-complete state, in which parse_network has
\* returned, is eventually reached.
C34_ParseTerminates ==
    /\ [][(pc = "loop" /\ pc' = "loop") =>
            (pos' > pos \/ symbol'.type = "EOF")]_vars
    /\ <>(pc = "done")

\* C35: error_count is the length of error_list in every parser state; a
\* freshly constructed Parser has count 0 and an empty list; no step of a
\* parse lowers the count or takes an entry off the list.
C35_ErrorCountIsListLength ==
    /\ [](error_count = Len(error_list))
    /\ [](pc = "start" => error_count = 0 /\ error_list = <<>>)
    /\ [][/\ error_count' >= error_count
          /\ Len(error_list') >= Len(error_list)
          /\ SubSeq(error_list', 1, Len(error_list)) = error_list]_vars

\* two statements of one parse have each recorded an error
C35_Witness ==
    /\ pc = "done"
    /\ error_count = 2
    /\ Len(error_list) = 2

\* C36: a DEF, CON or MONITOR statement that appended to error_list has
\* installed nothing: devices, connections and monitors are what they were
\* before the statement.
C36_FailedStatementInstallsNothing ==
    (/\ last.kind \in {"DEF", "CON", "MONITOR"}
     /\ Len(error_list) > Len(last.before.error_list))
        => /\ devices = last.before.devices
           /\ connections = last.before.connections
           /\ monitors = last.before.monitors

\* C37: once the window is built, after any check box events, the lists
\* monitored_signals and not_monitored_signals share no signal, hold no
\* signal twice, together hold exactly the signals the check boxes were
\* made for, and a signal is in monitored_signals exactly when its box is
\* ticked.
ListSet(list) == { list[i] : i \in 1..Len(list) }
C37_SignalListsPartition ==
    GuiOpen =>
        /\ ListSet(monitored_signals) \cap ListSet(not_monitored_signals) = {}
        /\ Cardinality(ListSet(monitored_signals)) = Len(monitored_signals)
        /\ Cardinality(ListSet(not_monitored_signals))
              = Len(not_monitored_signals)
        /\ ListSet(monitored_signals) \cup ListSet(not_monitored_signals)
              = Signals
        /\ \A m \in Signals :
              InList(m, monitored_signals) <=> checkboxes[m]

\* the window opened with G1 monitored and SW1 not; SW1's box has been
\* ticked and G1's box cleared, so the two signals have changed lists
C37_Witness ==
    /\ GuiOpen
    /\ handler = "zap_command"
    /\ \E sw, g \in Signals :
          /\ sw.id = "SW1" /\ g.id = "G1"
          /\ monitored_signals = <<sw>>
          /\ not_monitored_signals = <<g>>
          /\ checkboxes[sw] /\ ~checkboxes[g]

====
